---- MODULE Spec2Model ----
(***************************************************************************)
(* TinyYolov2 (src/src/tinyYolov2/TinyYolov2.ts): construction, parameter  *)
(* loading, the detect pipeline (input size resolution, ingestion,         *)
(* backbone, extractBoxes, suppression) and computeLoss (guard, ground     *)
(* truth assignment, loss masks, the four loss terms).                     *)
(*                                                                         *)
(* Floating point values are fixed point numbers: logits are integers,     *)
(* probabilities and relative coordinates are thousandths (Milli), and a   *)
(* product of two probabilities is in millionths.                          *)
(***************************************************************************)
EXTENDS Integers, Sequences, FiniteSets, TLC

\* ------------------------------------------------------------ bounds
MaxVaried == 1     \* slots of a raw output that differ from the background slot
MaxClasses == 2    \* length of the configured class list
MaxGroundTruth == 2 \* ground truth boxes passed to computeLoss

\* ------------------------------------------------------------ numerics
Milli == 1000

\* Math.exp on the integer logits of the model, in thousandths.
ExpMilli(x) ==
  CASE x = -3 -> 50
    [] x = -2 -> 135
    [] x = -1 -> 368
    [] x = 0 -> 1000
    [] x = 1 -> 2718
    [] x = 2 -> 7389
    [] x = 3 -> 20086

\* sigmoid(x) = 1 / (1 + exp(-x)), in thousandths.
sigmoid(x) == (Milli * Milli) \div (Milli + ExpMilli(-x))

RECURSIVE SumSeq(_)
SumSeq(s) == IF s = <<>> THEN 0 ELSE Head(s) + SumSeq(Tail(s))

\* tf.softmax over the class axis, in thousandths.
softmax(logits) ==
  LET e == [i \in 1..Len(logits) |-> ExpMilli(logits[i])]
  IN [i \in 1..Len(logits) |-> (e[i] * Milli) \div SumSeq(e)]

Max(a, b) == IF a >= b THEN a ELSE b
Min(a, b) == IF a <= b THEN a ELSE b

\* ------------------------------------------------------------ configuration
ClassNames == [i \in 1..MaxClasses |-> i]

\* Anchor priors in grid cell units: a square one, a wide one and a tall one.
AnchorPriors == << [x |-> 3, y |-> 3], [x |-> 3, y |-> 1], [x |-> 1, y |-> 3] >>

TrainScales == [noObjectScale |-> 1, objectScale |-> 5, coordScale |-> 1, classScale |-> 1]

MkConfig(anchors, n, flag, train) ==
  [anchors |-> anchors, classes |-> SubSeq(ClassNames, 1, n),
   withClassScores |-> flag, iouThreshold |-> [num |-> 1, den |-> 4], train |-> train]

\* The configurations handed to the constructor, valid and invalid.
CandidateConfigs ==
  { MkConfig(AnchorPriors, n, flag, TRUE) : n \in 1..MaxClasses, flag \in BOOLEAN }
    \cup { MkConfig(<<>>, 1, FALSE, TRUE),
           MkConfig(AnchorPriors, 0, TRUE, TRUE),
           MkConfig(AnchorPriors, 1, FALSE, FALSE) }

\* validateConfig: at least one anchor and at least one class name.
validateConfig(c) == Len(c.anchors) >= 1 /\ Len(c.classes) >= 1

\* validateTrainConfig: the four loss scales are configured.
validateTrainConfig(c) == c.train

\* Mutant of withClassScores: the configured flag alone.
withClassScoresFlagOnly(c) == c.withClassScores

\* get withClassScores
withClassScores(c) == c.withClassScores \/ Len(c.classes) > 1

\* get boxEncodingSize
boxEncodingSize(c) == 5 + (IF withClassScores(c) THEN Len(c.classes) ELSE 0)

\* ------------------------------------------------------------ raw output
\* The (row, col, anchor) slots of a grid, zero based as in the code.
Slots(numCells, numBoxes) ==
  { <<row, col, anchor>> : row \in 0..(numCells - 1), col \in 0..(numCells - 1),
                           anchor \in 0..(numBoxes - 1) }

\* The slots in the order of extractBoxes' three loops.
SlotOrder(numCells, numBoxes) ==
  [i \in 1..(numCells * numCells * numBoxes) |->
     << (i - 1) \div (numCells * numBoxes), ((i - 1) \div numBoxes) % numCells,
        (i - 1) % numBoxes >>]

ConstSeq(n, v) == [i \in 1..n |-> v]
OneHotLogits(n, k) == [i \in 1..n |-> IF i = k THEN 3 ELSE 0]

\* The class logits a slot carries: none when the encoding has no class part.
ClassPart(c, logits) == IF withClassScores(c) THEN logits ELSE <<>>

\* One slot's encoding (tx, ty, tw, th, to, class logits...).
BackgroundSlot(c) == <<0, 0, 0, 0, 1>> \o ClassPart(c, ConstSeq(Len(c.classes), 0))

VariedSlots(c) ==
  { <<0, 0, 0, 0, 0>> \o ClassPart(c, OneHotLogits(Len(c.classes), 1)),
    <<1, -1, 1, -1, 3>> \o ClassPart(c, ConstSeq(Len(c.classes), 0)),
    <<0, 0, 0, 0, 3>> \o ClassPart(c, OneHotLogits(Len(c.classes), Len(c.classes))) }

RECURSIVE SubsetsUpTo(_, _)
SubsetsUpTo(S, k) ==
  IF k = 0 THEN {{}}
  ELSE LET prev == SubsetsUpTo(S, k - 1)
       IN prev \cup { h \cup {s} : h \in prev, s \in S }

\* The raw outputs the backbone may produce for a grid: the background slot
\* everywhere but in at most MaxVaried slots.
RawOutputsWith(c, numCells, varied, encodings) ==
  LET slots == Slots(numCells, Len(c.anchors))
  IN UNION { { [numCells |-> numCells,
                data |-> [s \in slots |-> IF s \in H THEN v[s] ELSE BackgroundSlot(c)]] :
               v \in [H -> encodings] } :
             H \in SubsetsUpTo(slots, varied) }

RawOutputs(c, numCells) == RawOutputsWith(c, numCells, MaxVaried, VariedSlots(c))

NoTensor == [numCells |-> 0, data |-> <<>>]

\* tf.maxPool(out, [2, 2], [2, 2], 'same') halves a side, rounding up.
maxPoolSame(n) == (n + 1) \div 2

\* The side of the backbone's output for a square input of side inputSize:
\* five stride 2 pools; the sixth pool has stride 1 and the convolutions keep
\* the side.
numCellsOf(inputSize) == maxPoolSame(maxPoolSame(maxPoolSame(maxPoolSame(maxPoolSame(inputSize)))))

\* ------------------------------------------------------------ boxes
BoundingBox(left, top, right, bottom) ==
  [left |-> left, top |-> top, right |-> right, bottom |-> bottom]

\* box.rescale(s): every coordinate times s; relative thousandths become
\* whole pixels.
rescale(box, s) ==
  BoundingBox((box.left * s) \div Milli, (box.top * s) \div Milli,
              (box.right * s) \div Milli, (box.bottom * s) \div Milli)

Area(box) == (box.right - box.left) * (box.bottom - box.top)

Intersection(a, b) ==
  Max(0, Min(a.right, b.right) - Max(a.left, b.left))
    * Max(0, Min(a.bottom, b.bottom) - Max(a.top, b.top))

\* iou(a, b) > threshold, the threshold a ratio num / den.
IouExceeds(a, b, threshold) ==
  LET inter == Intersection(a, b)
  IN inter * threshold.den > threshold.num * (Area(a) + Area(b) - inter)

\* ------------------------------------------------------------ extractBoxes
RECURSIVE reduceMaxClass(_, _, _)
reduceMaxClass(scores, i, max) ==
  IF i > Len(scores) THEN max
  ELSE reduceMaxClass(scores, i + 1,
         IF max.classScore > scores[i] THEN max
         ELSE [classScore |-> scores[i], classLabel |-> i - 1])

RECURSIVE reduceFirstMaxClass(_, _, _)
reduceFirstMaxClass(scores, i, max) ==
  IF i > Len(scores) THEN max
  ELSE reduceFirstMaxClass(scores, i + 1,
         IF max.classScore >= scores[i] THEN max
         ELSE [classScore |-> scores[i], classLabel |-> i - 1])

\* Mutant of extractPredictedClass: the reduce keeps the earlier entry on a tie.
extractPredictedClassFirst(classScores) ==
  reduceFirstMaxClass(classScores, 2, [classScore |-> classScores[1], classLabel |-> 0])

\* extractPredictedClass: the reduce keeps the later entry unless the earlier
\* one is strictly greater.
extractPredictedClass(classScores) ==
  reduceMaxClass(classScores, 2, [classScore |-> classScores[1], classLabel |-> 0])

\* The slice [5, 5 + classes.length) of a slot, normalised.
classScoresOf(c, enc) == softmax(SubSeq(enc, 6, 5 + Len(c.classes)))

\* Line 248: no threshold (undefined or 0), or the objectness exceeds it.
passesThreshold(score, scoreThreshold) == scoreThreshold = 0 \/ score > scoreThreshold

\* Lines 249-267: the decoded box, score and label of one slot.
decodeSlot(c, outputTensor, dims, slot) ==
  LET numCells == outputTensor.numCells
      enc == outputTensor.data[slot]
      row == slot[1]
      col == slot[2]
      anchor == slot[3]
      inputSize == Max(dims.width, dims.height)
      correctionFactorX == (inputSize * Milli) \div dims.width
      correctionFactorY == (inputSize * Milli) \div dims.height
      score == sigmoid(enc[5])
      ctX == ((col * Milli + sigmoid(enc[1])) * correctionFactorX) \div (numCells * Milli)
      ctY == ((row * Milli + sigmoid(enc[2])) * correctionFactorY) \div (numCells * Milli)
      width == (ExpMilli(enc[3]) * c.anchors[anchor + 1].x * correctionFactorX) \div (numCells * Milli)
      height == (ExpMilli(enc[4]) * c.anchors[anchor + 1].y * correctionFactorY) \div (numCells * Milli)
      x == ctX - (width \div 2)
      y == ctY - (height \div 2)
      predicted == IF withClassScores(c) THEN extractPredictedClass(classScoresOf(c, enc))
                   ELSE [classScore |-> Milli, classLabel |-> 0]
  IN [box |-> BoundingBox(x, y, x + width, y + height),
      score |-> score * predicted.classScore,
      classLabel |-> predicted.classLabel,
      row |-> row, col |-> col, anchor |-> anchor]

\* extractBoxes: the slots in loop order whose objectness passes, decoded.
extractBoxes(c, outputTensor, dims, scoreThreshold) ==
  LET order == SlotOrder(outputTensor.numCells, Len(c.anchors))
      kept == SelectSeq(order,
                LAMBDA s : passesThreshold(sigmoid(outputTensor.data[s][5]), scoreThreshold))
  IN [i \in 1..Len(kept) |-> decodeSlot(c, outputTensor, dims, kept[i])]

\* The tensors extractBoxes leaves allocated: tf.tidy keeps the three it
\* returns (boxes, scores, classScores); boxes and scores are disposed.
extractBoxesLive(live) ==
  (live \cup {"boxesTensor", "scoresTensor", "classScoresTensor"})
    \ {"boxesTensor", "scoresTensor"}

\* ------------------------------------------------------------ suppression
\* nonMaxSuppression: greedy, by descending score (equal scores by position).
RECURSIVE sortByScore(_, _)
sortByScore(scores, left) ==
  IF left = {} THEN <<>>
  ELSE LET best == CHOOSE i \in left :
                     \A j \in left : scores[i] > scores[j] \/ (scores[i] = scores[j] /\ i <= j)
       IN <<best>> \o sortByScore(scores, left \ {best})

RECURSIVE greedyPick(_, _, _, _)
greedyPick(candidates, boxes, iouThreshold, pick) ==
  IF candidates = <<>> THEN pick
  ELSE LET curr == Head(candidates)
           rest == SelectSeq(Tail(candidates),
                     LAMBDA idx : ~IouExceeds(boxes[curr], boxes[idx], iouThreshold))
       IN greedyPick(rest, boxes, iouThreshold, Append(pick, curr))

nonMaxSuppression(boxes, scores, iouThreshold) ==
  greedyPick(sortByScore(scores, DOMAIN scores), boxes, iouThreshold, <<>>)

\* Lines 116-134 of detect: suppression over the rescaled boxes, then one
\* ObjectDetection per surviving index.
detectionsOf(c, results, inputSize) ==
  LET boxes == [i \in 1..Len(results) |-> results[i].box]
      scores == [i \in 1..Len(results) |-> results[i].score]
      classNames == [i \in 1..Len(results) |-> c.classes[results[i].classLabel + 1]]
      indices == nonMaxSuppression([i \in 1..Len(boxes) |-> rescale(boxes[i], inputSize)],
                                   scores, c.iouThreshold)
  IN [k \in 1..Len(indices) |->
        [score |-> scores[indices[k]], className |-> classNames[indices[k]],
         box |-> boxes[indices[k]]]]

\* detect's result for a raw output: extractBoxes, then suppression.
detectOn(c, outputTensor, dims, inputSize, scoreThreshold) ==
  detectionsOf(c, extractBoxes(c, outputTensor, dims, scoreThreshold), inputSize)

\* ------------------------------------------------------------ computeLoss
\* The side of a grid cell in pixels: the backbone's five stride 2 pools.
CELL_SIZE == 32

Abs(x) == IF x < 0 THEN -x ELSE x

Logits == -3..3

\* Math.log of a ratio in thousandths, to the nearest integer logit.
logOf(r) ==
  CHOOSE x \in Logits :
    \A y \in Logits : Abs(ExpMilli(x) - r) < Abs(ExpMilli(y) - r)
                        \/ (Abs(ExpMilli(x) - r) = Abs(ExpMilli(y) - r) /\ x <= y)

\* The inverse of sigmoid on thousandths, to the nearest integer logit.
inverseSigmoid(p) ==
  CHOOSE x \in Logits :
    \A y \in Logits : Abs(sigmoid(x) - p) < Abs(sigmoid(y) - p)
                        \/ (Abs(sigmoid(x) - p) = Abs(sigmoid(y) - p) /\ x <= y)

\* A ground truth box (x, y, width, height in thousandths of the image) in
\* the pixels of the reshaped image.
gtPixels(g, dims) ==
  [left |-> (g.x * dims.width) \div Milli, top |-> (g.y * dims.height) \div Milli,
   width |-> (g.width * dims.width) \div Milli, height |-> (g.height * dims.height) \div Milli]

\* The anchor whose prior overlaps a box of the given size most (the first
\* one among equals).
bestAnchor(anchors, width, height) ==
  LET prior(a) == BoundingBox(0, 0, anchors[a].x * CELL_SIZE, anchors[a].y * CELL_SIZE)
      box == BoundingBox(0, 0, width, height)
      better(a, b) ==
        LET ia == Intersection(prior(a), box)
            ib == Intersection(prior(b), box)
        IN ia * (Area(prior(b)) + Area(box) - ib) > ib * (Area(prior(a)) + Area(box) - ia)
  IN (CHOOSE a \in 1..Len(anchors) :
        /\ \A b \in 1..Len(anchors) : ~better(b, a)
        /\ \A b \in 1..(a - 1) : better(a, b)) - 1

\* assignGroundTruthToAnchors: the cell of the box's centre and the best
\* matching anchor, one assignment per ground truth box.
assignGroundTruthToAnchors(groundTruth, anchors, dims) ==
  LET size == Max(dims.width, dims.height)
      numCells == size \div CELL_SIZE
      assign(g) ==
        LET px == gtPixels(g, dims)
            ctX == px.left + (px.width \div 2)
            ctY == px.top + (px.height \div 2)
        IN [row |-> (ctY * numCells) \div size, col |-> (ctX * numCells) \div size,
            anchor |-> bestAnchor(anchors, px.width, px.height),
            box |-> px, label |-> g.label]
  IN [i \in 1..Len(groundTruth) |-> assign(groundTruth[i])]

AssignedSlots(groundTruthBoxes) ==
  { << groundTruthBoxes[i].row, groundTruthBoxes[i].col, groundTruthBoxes[i].anchor >> :
      i \in 1..Len(groundTruthBoxes) }

\* The last ground truth box assigned to a slot: a later one overwrites.
LastAssigned(groundTruthBoxes, slot) ==
  LET hits == { i \in 1..Len(groundTruthBoxes) :
                  << groundTruthBoxes[i].row, groundTruthBoxes[i].col,
                     groundTruthBoxes[i].anchor >> = slot }
  IN groundTruthBoxes[CHOOSE i \in hits : \A j \in hits : j <= i]

\* A tensor that holds v[k] on channel k of every slot.
Channelwise(numCells, numBoxes, v) == [s \in Slots(numCells, numBoxes) |-> v]

\* createGroundTruthMask: 1 on the channels of every assigned slot.
createGroundTruthMask(groundTruthBoxes, size, encodingSize, numBoxes) ==
  [s \in Slots(size \div CELL_SIZE, numBoxes) |->
     ConstSeq(encodingSize, IF s \in AssignedSlots(groundTruthBoxes) THEN 1 ELSE 0)]

\* createCoordAndScoreMasks: the four geometry channels, and the score
\* channel, of every slot.
createCoordAndScoreMasks(size, encodingSize, numBoxes) ==
  [coordMask |-> Channelwise(size \div CELL_SIZE, numBoxes,
                             [k \in 1..encodingSize |-> IF k <= 4 THEN 1 ELSE 0]),
   scoreMask |-> Channelwise(size \div CELL_SIZE, numBoxes,
                             [k \in 1..encodingSize |-> IF k = 5 THEN 1 ELSE 0])]

\* tf.mul and tf.sub on tensors of one shape, and with a scalar on the left.
mul(a, b) == [s \in DOMAIN a |-> [k \in DOMAIN a[s] |-> a[s][k] * b[s][k]]]
sub(a, b) == [s \in DOMAIN a |-> [k \in DOMAIN a[s] |-> a[s][k] - b[s][k]]]
scalarSub(x, b) == [s \in DOMAIN b |-> [k \in DOMAIN b[s] |-> x - b[s][k]]]

\* Mutant of noObjectLossMaskOf: the ground truth mask is not complemented away.
noObjectLossMaskAll(scoreMask, groundTruthMask) == scoreMask

\* Mutant of coordLossMaskOf: the ground truth mask is not applied.
coordLossMaskAll(coordMask, groundTruthMask) == coordMask

\* Lines 158-160.
noObjectLossMaskOf(scoreMask, groundTruthMask) == mul(scoreMask, scalarSub(1, groundTruthMask))
objectLossMaskOf(scoreMask, groundTruthMask) == mul(scoreMask, groundTruthMask)
coordLossMaskOf(coordMask, groundTruthMask) == mul(coordMask, groundTruthMask)

RECURSIVE SumOver(_, _)
SumOver(S, f) ==
  IF S = {} THEN 0
  ELSE LET x == CHOOSE y \in S : TRUE IN f[x] + SumOver(S \ {x}, f)

\* tf.sum(tf.square(t)).
sumSquare(t) ==
  SumOver(DOMAIN t, [s \in DOMAIN t |-> SumSeq([k \in DOMAIN t[s] |-> t[s][k] * t[s][k]])])

\* squaredSumOverMask, lines 162-163.
squaredSumOverMask(mask, lossTensor) == sumSquare(mul(mask, lossTensor))

\* computeLossTerm, lines 165-166.
computeLossTerm(scale, mask, lossTensor) == scale * squaredSumOverMask(mask, lossTensor)

\* computeNoObjectLoss: tf.sigmoid(outTensor), in thousandths.
computeNoObjectLoss(outTensor) ==
  [s \in DOMAIN outTensor.data |->
     [k \in DOMAIN outTensor.data[s] |-> sigmoid(outTensor.data[s][k])]]

\* box.rescale(dims): x by the width, y by the height, to whole pixels.
rescaleDims(box, dims) ==
  BoundingBox((box.left * dims.width) \div Milli, (box.top * dims.height) \div Milli,
              (box.right * dims.width) \div Milli, (box.bottom * dims.height) \div Milli)

\* iou in thousandths.
iou(a, b) ==
  LET inter == Intersection(a, b)
      union == Area(a) + Area(b) - inter
  IN IF union = 0 THEN 0 ELSE (inter * Milli) \div union

\* computeIous: on the score channel of every assigned slot, the iou of the
\* predicted box with the ground truth box.
computeIous(c, predBoxes, groundTruthBoxes, dims) ==
  LET predAt(slot) ==
        predBoxes[CHOOSE i \in 1..Len(predBoxes) :
                    << predBoxes[i].row, predBoxes[i].col, predBoxes[i].anchor >> = slot]
      gtBox(slot) ==
        LET px == LastAssigned(groundTruthBoxes, slot).box
        IN BoundingBox(px.left, px.top, px.left + px.width, px.top + px.height)
  IN [s \in Slots(Max(dims.width, dims.height) \div CELL_SIZE, Len(c.anchors)) |->
        [k \in 1..boxEncodingSize(c) |->
           IF k = 5 /\ s \in AssignedSlots(groundTruthBoxes)
           THEN iou(gtBox(s), rescaleDims(predAt(s).box, dims))
           ELSE 0]]

\* computeObjectLoss, lines 294-309.
computeObjectLoss(c, groundTruthBoxes, outTensor, dims) ==
  sub(computeIous(c, extractBoxes(c, outTensor, dims, 0), groundTruthBoxes, dims),
      computeNoObjectLoss(outTensor))

\* computeBoxAdjustments: on the geometry channels of every assigned slot,
\* the raw values that decode to the ground truth box.
computeBoxAdjustments(c, groundTruthBoxes, dims) ==
  LET target(slot, k) ==
        LET g == LastAssigned(groundTruthBoxes, slot)
            ctX == g.box.left + (g.box.width \div 2)
            ctY == g.box.top + (g.box.height \div 2)
        IN CASE k = 1 -> inverseSigmoid((ctX * Milli) \div CELL_SIZE - g.col * Milli)
             [] k = 2 -> inverseSigmoid((ctY * Milli) \div CELL_SIZE - g.row * Milli)
             [] k = 3 -> logOf((g.box.width * Milli) \div (CELL_SIZE * c.anchors[g.anchor + 1].x))
             [] k = 4 -> logOf((g.box.height * Milli) \div (CELL_SIZE * c.anchors[g.anchor + 1].y))
  IN [s \in Slots(Max(dims.width, dims.height) \div CELL_SIZE, Len(c.anchors)) |->
        [k \in 1..boxEncodingSize(c) |->
           IF k <= 4 /\ s \in AssignedSlots(groundTruthBoxes) THEN target(s, k) ELSE 0]]

\* computeCoordLoss, line 319, in thousandths.
coordDifference(boxAdjustments, outTensor) ==
  LET diff == sub(boxAdjustments, outTensor.data)
  IN [s \in DOMAIN diff |-> [k \in DOMAIN diff[s] |-> diff[s][k] * Milli]]

\* computeCoordLoss, lines 311-321.
computeCoordLoss(c, groundTruthBoxes, outTensor, dims) ==
  coordDifference(computeBoxAdjustments(c, groundTruthBoxes, dims), outTensor)

\* createOneHotClassScoreMask: 1 on the class of the ground truth box of
\* every assigned slot.
createOneHotClassScoreMask(groundTruthBoxes, numCells, numClasses, numBoxes) ==
  [s \in Slots(numCells, numBoxes) |->
     [k \in 1..numClasses |->
        IF s \in AssignedSlots(groundTruthBoxes)
             /\ LastAssigned(groundTruthBoxes, s).label + 1 = k
        THEN 1 ELSE 0]]

\* computeClassLoss, lines 323-335, in thousandths.
computeClassLoss(c, groundTruthBoxes, outTensor) ==
  LET gtClassScores == createOneHotClassScoreMask(groundTruthBoxes, outTensor.numCells,
                                                  Len(c.classes), Len(c.anchors))
  IN [s \in DOMAIN outTensor.data |->
        [k \in 1..Len(c.classes) |->
           gtClassScores[s][k] * Milli - classScoresOf(c, outTensor.data[s])[k]]]

\* tf.scalar(1), the mask handed to the class loss term.
classLossMask == 1

\* tf.mul of a scalar and a tensor.
scalarMul(x, b) == [s \in DOMAIN b |-> [k \in DOMAIN b[s] |-> x * b[s][k]]]

\* The class loss term, lines 186-192.
classLossOf(c, groundTruthBoxes, outTensor) ==
  IF withClassScores(c)
  THEN TrainScales.classScale
         * sumSquare(scalarMul(classLossMask, computeClassLoss(c, groundTruthBoxes, outTensor)))
  ELSE 0

\* The masks of lines 155-160.
lossMasksOf(c, groundTruthBoxes, size) ==
  LET groundTruthMask == createGroundTruthMask(groundTruthBoxes, size, boxEncodingSize(c),
                                               Len(c.anchors))
      m == createCoordAndScoreMasks(size, boxEncodingSize(c), Len(c.anchors))
  IN [noObjectLossMask |-> noObjectLossMaskOf(m.scoreMask, groundTruthMask),
      objectLossMask |-> objectLossMaskOf(m.scoreMask, groundTruthMask),
      coordLossMask |-> coordLossMaskOf(m.coordMask, groundTruthMask)]

\* The coordinate loss term, lines 180-184.
coordLossOf(c, mask, groundTruthBoxes, outTensor, dims) ==
  computeLossTerm(TrainScales.coordScale, mask,
                  computeCoordLoss(c, groundTruthBoxes, outTensor, dims))

\* The five values computeLoss returns, lines 168-202.
lossesOf(c, m, groundTruthBoxes, outTensor, dims) ==
  LET noObjectLoss == computeLossTerm(TrainScales.noObjectScale, m.noObjectLossMask,
                                      computeNoObjectLoss(outTensor))
      objectLoss == computeLossTerm(TrainScales.objectScale, m.objectLossMask,
                                    computeObjectLoss(c, groundTruthBoxes, outTensor, dims))
      coordLoss == coordLossOf(c, m.coordLossMask, groundTruthBoxes, outTensor, dims)
      classLoss == classLossOf(c, groundTruthBoxes, outTensor)
  IN [noObjectLoss |-> noObjectLoss, objectLoss |-> objectLoss, coordLoss |-> coordLoss,
      classLoss |-> classLoss,
      totalLoss |-> noObjectLoss + objectLoss + coordLoss + classLoss]

\* ------------------------------------------------------------ state
VARIABLES
  config,          \* the configuration handed to the constructor
  pc,              \* where the detector's current operation stands
  loaded,          \* this.params is set
  loadedAtCall,    \* this.params was set when detect was called
  inputSize,       \* the resolved input size
  scoreThreshold,  \* detect: the score threshold in thousandths, 0 for none
  dims,            \* the reshaped image dimensions
  out,             \* the raw output tensor
  results,         \* detect: what extractBoxes returned
  detections,      \* detect: the returned detections
  scratch,         \* detect: tensors allocated by the call and not yet disposed
  groundTruth,     \* computeLoss: the ground truth boxes
  groundTruthBoxes, \* computeLoss: the assignments
  masks,           \* computeLoss: the three loss masks
  loss,            \* computeLoss: the returned loss values
  steps,           \* the steps of the operation that have run
  error            \* the error thrown, "" for none

detectVars == << loadedAtCall, scoreThreshold, results, detections, scratch >>
lossVars == << groundTruth, groundTruthBoxes, masks, loss >>
vars == << config, pc, loaded, inputSize, dims, out, steps, error, detectVars, lossVars >>

NoDims == [width |-> 0, height |-> 0]
NoMasks == [noObjectLossMask |-> <<>>, objectLossMask |-> <<>>, coordLossMask |-> <<>>]
NoLoss == [noObjectLoss |-> 0, objectLoss |-> 0, coordLoss |-> 0, classLoss |-> 0,
           totalLoss |-> 0]

Init ==
  /\ config \in CandidateConfigs
  /\ pc = "new"
  /\ loaded = FALSE
  /\ loadedAtCall = FALSE
  /\ inputSize = 0
  /\ scoreThreshold = 0
  /\ dims = NoDims
  /\ out = NoTensor
  /\ results = <<>>
  /\ detections = <<>>
  /\ scratch = {}
  /\ groundTruth = <<>>
  /\ groundTruthBoxes = <<>>
  /\ masks = NoMasks
  /\ loss = NoLoss
  /\ steps = {}
  /\ error = ""

\* constructor: validateConfig throws on an invalid configuration.
Construct ==
  /\ pc = "new"
  /\ pc' = IF validateConfig(config) THEN "idle" ELSE "rejected"
  /\ error' = IF validateConfig(config) THEN "" ELSE "invalid config"
  /\ UNCHANGED << config, loaded, inputSize, dims, out, steps, detectVars, lossVars >>

\* The messages of the errors detect and computeLoss throw.
NotLoadedError == "load model before inference"
UnknownInputSizeError == "unknown inputSize"
InvalidInputSizeError == "computeLoss - invalid inputSize"

ModelUris == {"", "/models"}

\* load, through loadQuantizedParams: needs a model uri. It may complete
\* while a detect call awaits.
Load ==
  /\ pc \notin {"new", "rejected"}
  /\ ~loaded
  /\ \E modelUri \in ModelUris :
       /\ modelUri # ""
       /\ loaded' = TRUE
  /\ UNCHANGED << config, pc, inputSize, dims, out, steps, error, detectVars, lossVars >>

\* INPUT_SIZES
INPUT_SIZES == [name \in {"xs", "sm", "md", "lg"} |->
                  CASE name = "xs" -> 224 [] name = "sm" -> 320
                    [] name = "md" -> 416 [] name = "lg" -> 608]

\* The input sizes whose backbone output the model enumerates: grids of one
\* and of two cells per side.
ModelledInputSizes == {32, 64}

\* forwardParams.inputSize after getDefaultParams: a name or a number.
InputSizeParams ==
  { [name |-> n, value |-> 0] : n \in {"md", "xl"} }
    \cup { [name |-> "", value |-> v] : v \in ModelledInputSizes }

ScoreThresholds == {0, 600, 800}

\* detect, lines 93-101: resolve the input size, throw on an unknown name.
DetectStart ==
  /\ pc = "idle"
  /\ \E p \in InputSizeParams, t \in ScoreThresholds :
       /\ scoreThreshold' = t
       /\ IF p.name # "" /\ p.name \notin DOMAIN INPUT_SIZES
          THEN /\ pc' = "failed"
               /\ error' = UnknownInputSizeError
               /\ inputSize' = 0
          ELSE /\ pc' = "toNetInput"
               /\ error' = ""
               /\ inputSize' = IF p.name # "" THEN INPUT_SIZES[p.name] ELSE p.value
  /\ loadedAtCall' = loaded
  /\ steps' = steps \cup {"resolveInputSize"}
  /\ UNCHANGED << config, loaded, dims, out, results, detections, scratch, lossVars >>

\* The reshaped dimensions of an image: its longer side is inputSize.
ReshapedDims(size) ==
  { [width |-> size, height |-> size], [width |-> size \div 2, height |-> size] }

\* detect, line 103: await toNetInput(input, true).
ToNetInput ==
  /\ pc = "toNetInput"
  /\ \E d \in ReshapedDims(inputSize) : dims' = d
  /\ pc' = "forwardInput"
  /\ steps' = steps \cup {"toNetInput"}
  /\ UNCHANGED << config, loaded, inputSize, out, error, detectVars, lossVars >>

\* forwardInput, lines 51-55: no params.
ForwardInputNotLoaded ==
  /\ pc = "forwardInput"
  /\ ~loaded
  /\ pc' = "failed"
  /\ error' = NotLoadedError
  /\ UNCHANGED << config, loaded, inputSize, dims, out, steps, detectVars, lossVars >>

\* Mutant of ForwardInput: the backbone runs without the params check.
ForwardInputUnchecked ==
  /\ pc = "forwardInput"
  /\ inputSize \in ModelledInputSizes
  /\ \E t \in RawOutputs(config, numCellsOf(inputSize)) : out' = t
  /\ scratch' = scratch \cup {"out"}
  /\ pc' = "extractBoxes"
  /\ steps' = steps \cup {"backbone"}
  /\ UNCHANGED << config, loaded, inputSize, dims, error, loadedAtCall, scoreThreshold,
                  results, detections, lossVars >>

\* forwardInput, lines 57-84: the backbone, whose tidy keeps only its output.
ForwardInput ==
  /\ pc = "forwardInput"
  /\ loaded
  /\ inputSize \in ModelledInputSizes
  /\ \E t \in RawOutputs(config, numCellsOf(inputSize)) : out' = t
  /\ scratch' = scratch \cup {"out"}
  /\ pc' = "extractBoxes"
  /\ steps' = steps \cup {"backbone"}
  /\ UNCHANGED << config, loaded, inputSize, dims, error, loadedAtCall, scoreThreshold,
                  results, detections, lossVars >>

\* detect, lines 105-136: the first batch entry, extractBoxes, the disposal
\* of out and out0, suppression and the detections.
DetectFinish ==
  /\ pc = "extractBoxes"
  /\ results' = extractBoxes(config, out, dims, scoreThreshold)
  /\ scratch' = extractBoxesLive(scratch \cup {"out0"}) \ {"out", "out0"}
  /\ detections' = detectionsOf(config, results', inputSize)
  /\ pc' = "done"
  /\ steps' = steps \cup {"unstack", "extractBoxes", "nonMaxSuppression"}
  /\ UNCHANGED << config, loaded, inputSize, dims, out, error, loadedAtCall, scoreThreshold,
                  lossVars >>

\* ------------------------------------------------------------ computeLoss calls
\* The reshaped image dimensions handed to computeLoss.
LossDims ==
  { [width |-> 32, height |-> 32], [width |-> 64, height |-> 64],
    [width |-> 0, height |-> 0], [width |-> -32, height |-> -32] }

\* Ground truth boxes (thousandths of the image): a wide one in the upper
\* right, a tall one in the lower left, and a second wide one in the upper
\* right.
GroundTruthPool(c) ==
  { [x |-> 250, y |-> 83, width |-> 1000, height |-> 333, label |-> 0],
    [x |-> 84, y |-> 250, width |-> 333, height |-> 1000, label |-> Len(c.classes) - 1],
    [x |-> 350, y |-> 100, width |-> 800, height |-> 300, label |-> 0] }

GroundTruths(c) == UNION { [1..n -> GroundTruthPool(c)] : n \in 0..MaxGroundTruth }

\* The raw outputs handed to computeLoss, of the grid of the dimensions: the
\* background slot everywhere but in at most one slot.
LossOutputs(c, d) ==
  RawOutputsWith(c, Max(1, Max(d.width, d.height) \div CELL_SIZE), 1,
                 { <<1, -1, 1, -1, 3>> \o ClassPart(c, OneHotLogits(Len(c.classes), 1)) })

\* computeLoss, lines 141-147: validateTrainConfig, then the input size guard.
ComputeLossStart ==
  /\ pc = "idle"
  /\ \E d \in LossDims :
       \E gt \in GroundTruths(config), t \in LossOutputs(config, d) :
         /\ dims' = d
         /\ groundTruth' = gt
         /\ out' = t
         /\ inputSize' = Max(d.width, d.height)
         /\ IF ~validateTrainConfig(config)
            THEN pc' = "failed" /\ error' = "invalid train config"
            ELSE IF Max(d.width, d.height) = 0
            THEN pc' = "failed" /\ error' = InvalidInputSizeError
            ELSE pc' = "assign" /\ error' = ""
  /\ steps' = steps \cup {"validateTrainConfig"}
  /\ UNCHANGED << config, loaded, detectVars, groundTruthBoxes, masks, loss >>

\* computeLoss, lines 149-153.
AssignGroundTruth ==
  /\ pc = "assign"
  /\ groundTruthBoxes' = assignGroundTruthToAnchors(groundTruth, config.anchors, dims)
  /\ pc' = "lossTerms"
  /\ steps' = steps \cup {"assign"}
  /\ UNCHANGED << config, loaded, inputSize, dims, out, error, detectVars, groundTruth,
                  masks, loss >>

\* computeLoss, lines 155-202: the masks and the loss terms, on a grid of at
\* least one cell.
ComputeLossTerms ==
  /\ pc = "lossTerms"
  /\ inputSize >= CELL_SIZE
  /\ masks' = lossMasksOf(config, groundTruthBoxes, inputSize)
  /\ loss' = lossesOf(config, masks', groundTruthBoxes, out, dims)
  /\ pc' = "lossDone"
  /\ steps' = steps \cup {"masks", "lossTerms"}
  /\ UNCHANGED << config, loaded, inputSize, dims, out, error, detectVars, groundTruth,
                  groundTruthBoxes >>

\* ------------------------------------------------------------ specifications
Next ==
  \/ Construct
  \/ Load
  \/ DetectStart
  \/ ToNetInput
  \/ ForwardInputNotLoaded
  \/ ForwardInput
  \/ DetectFinish

Spec == Init /\ [][Next]_vars

NextLoss ==
  \/ Construct
  \/ ComputeLossStart
  \/ AssignGroundTruth
  \/ ComputeLossTerms

SpecLoss == Init /\ [][NextLoss]_vars

\* ------------------------------------------------------------ claims
Accepted == pc \notin {"new", "rejected"}
DetectCalled == "resolveInputSize" \in steps

\* C1: for thresholds t1 <= t2, detect with t2 returns no more detections
\* than detect with t1 on the same raw output (the original claim).
CE_C1_ThresholdMonotone ==
  pc = "done" =>
    \A t \in ScoreThresholds :
      LET n == Len(detectOn(config, out, dims, inputSize, t))
      IN /\ (t >= scoreThreshold => n <= Len(detections))
         /\ (t <= scoreThreshold => Len(detections) <= n)

\* C2: with a score threshold configured, every returned detection has a
\* final score of at least the threshold (the original claim).
CE_C2_ScoreAtLeastThreshold ==
  (pc = "done" /\ scoreThreshold # 0) =>
    \A i \in 1..Len(detections) : detections[i].score >= scoreThreshold * Milli

\* C8: when detect returns, every tensor allocated during the call has been
\* disposed (the original claim).
CE_C8_ScratchReleased == pc = "done" => scratch = {}

\* C6 as claimed: a detect call on a detector without params fails with the
\* not-loaded error, before the image is ingested or any later step runs.
CE_C6_NotLoadedFirst ==
  (DetectCalled /\ ~loadedAtCall) =>
    /\ pc # "done"
    /\ pc = "failed" => error = NotLoadedError
    /\ steps \cap {"toNetInput", "backbone", "unstack", "extractBoxes", "nonMaxSuppression"} = {}

\* C6 as amended: while the params are not loaded no backbone, decode or
\* suppression step has run and nothing is returned; a detect call fails with
\* the not-loaded error only after the input size was resolved and the image
\* ingested, and once the image is ingested that is the only failure; before
\* ingestion the only failure is the unknown input size.
C6_NotLoadedFailsInForwardInput ==
  /\ ~loaded =>
       /\ pc \notin {"extractBoxes", "done"}
       /\ steps \cap {"backbone", "unstack", "extractBoxes", "nonMaxSuppression"} = {}
       /\ detections = <<>>
  /\ error = NotLoadedError =>
       /\ pc = "failed"
       /\ ~loadedAtCall
       /\ {"resolveInputSize", "toNetInput"} \subseteq steps
       /\ "backbone" \notin steps
       /\ detections = <<>>
  /\ (DetectCalled /\ pc = "failed") =>
       error = (IF "toNetInput" \in steps THEN NotLoadedError ELSE UnknownInputSizeError)

\* C6 witness: a detect call has failed with the not-loaded error, the image
\* ingested and the params still missing.
W_C6_NotLoadedAfterIngestion ==
  /\ pc = "failed"
  /\ error = NotLoadedError
  /\ ~loaded
  /\ "toNetInput" \in steps

\* C9 as claimed: boxEncodingSize is 5 + numClasses when the configured flag
\* is set and 5 when it is not.
CE_C9_EncodingSizeByFlag ==
  Accepted =>
    boxEncodingSize(config) = 5 + (IF config.withClassScores THEN Len(config.classes) ELSE 0)

\* C9 as amended: boxEncodingSize is 5 + numClasses when the configured flag
\* is set or the class list has more than one entry, and 5 otherwise; every
\* slot of a raw output has that many values.
C9_EncodingSize ==
  LET expected == 5 + (IF config.withClassScores \/ Len(config.classes) > 1
                       THEN Len(config.classes) ELSE 0)
  IN Accepted =>
       /\ boxEncodingSize(config) = expected
       /\ \A s \in DOMAIN out.data : Len(out.data[s]) = expected

\* C9 witness: an accepted configuration with the flag unset and several
\* classes, whose raw output carries the class logits.
W_C9_FlagUnsetSeveralClasses ==
  /\ pc = "extractBoxes"
  /\ ~config.withClassScores
  /\ Len(config.classes) > 1
  /\ \E s \in DOMAIN out.data : Len(out.data[s]) = 5 + Len(config.classes)

\* C10: every result of extractBoxes carries, with class scores enabled, a
\* label of maximal class probability (the highest index among equals) and
\* the score sigmoid(objectness) times that probability; with class scores
\* disabled the label 0 and the score sigmoid(objectness).
C10_PredictedClass ==
  pc = "done" =>
    \A i \in 1..Len(results) :
      LET r == results[i]
          enc == out.data[<< r.row, r.col, r.anchor >>]
      IN IF config.withClassScores \/ Len(config.classes) > 1
         THEN LET p == softmax(SubSeq(enc, 6, 5 + Len(config.classes)))
                  k == r.classLabel + 1
              IN /\ k \in 1..Len(config.classes)
                 /\ \A j \in 1..Len(config.classes) : p[j] <= p[k]
                 /\ \A j \in (k + 1)..Len(config.classes) : p[j] < p[k]
                 /\ r.score = sigmoid(enc[5]) * p[k]
         ELSE /\ r.classLabel = 0
              /\ r.score = sigmoid(enc[5]) * Milli

\* C10 witness: a kept slot whose class probabilities tie for the maximum,
\* labelled with the last class.
W_C10_TieTakesLast ==
  /\ pc = "done"
  /\ Len(config.classes) > 1
  /\ \E i \in 1..Len(results) :
       LET r == results[i]
           p == softmax(SubSeq(out.data[<< r.row, r.col, r.anchor >>], 6, 5 + Len(config.classes)))
       IN /\ p[1] = p[Len(config.classes)]
          /\ \A j \in 1..Len(config.classes) : p[j] <= p[1]
          /\ r.classLabel = Len(config.classes) - 1

LossSlots == Slots(inputSize \div CELL_SIZE, Len(config.anchors))

\* C3: the object and no-object loss masks are 0/1, disjoint, sum to 1 on the
\* score channel of every (row, col, anchor) slot and are 0 on every other
\* channel.
C3_MaskPartition ==
  pc = "lossDone" =>
    /\ DOMAIN masks.objectLossMask = LossSlots
    /\ DOMAIN masks.noObjectLossMask = LossSlots
    /\ \A s \in LossSlots :
         /\ Len(masks.objectLossMask[s]) = boxEncodingSize(config)
         /\ Len(masks.noObjectLossMask[s]) = boxEncodingSize(config)
         /\ \A k \in 1..boxEncodingSize(config) :
              LET o == masks.objectLossMask[s][k]
                  n == masks.noObjectLossMask[s][k]
              IN /\ o \in {0, 1}
                 /\ n \in {0, 1}
                 /\ o * n = 0
                 /\ o + n = (IF k = 5 THEN 1 ELSE 0)

\* C3 witness: a finished computeLoss with an assigned and an unassigned slot.
W_C3_AssignedAndUnassigned ==
  /\ pc = "lossDone"
  /\ \E s \in LossSlots : masks.objectLossMask[s][5] = 1
  /\ \E s \in LossSlots : masks.noObjectLossMask[s][5] = 1

\* Raw geometry values to put in place of a slot's tx, ty, tw, th.
GeometryAlternatives == { <<-3, 1, 2, -1>> }

WithGeometry(t, slot, g) ==
  [t EXCEPT !.data[slot] = [k \in DOMAIN t.data[slot] |-> IF k <= 4 THEN g[k] ELSE t.data[slot][k]]]

\* C4: the coordinate loss mask is 1 exactly on the four geometry channels of
\* the assigned slots, and replacing the raw geometry of an unassigned slot
\* leaves coordLoss unchanged.
C4_CoordLossOnlyAssigned ==
  pc = "lossDone" =>
    /\ \A s \in LossSlots : \A k \in 1..boxEncodingSize(config) :
         masks.coordLossMask[s][k]
           = (IF k <= 4 /\ s \in AssignedSlots(groundTruthBoxes) THEN 1 ELSE 0)
    /\ LET boxAdjustments == computeBoxAdjustments(config, groundTruthBoxes, dims)
       IN \A s \in LossSlots \ AssignedSlots(groundTruthBoxes) :
            \A g \in GeometryAlternatives :
              computeLossTerm(TrainScales.coordScale, masks.coordLossMask,
                              coordDifference(boxAdjustments, WithGeometry(out, s, g)))
                = loss.coordLoss

\* C4 witness: a finished computeLoss with a positive coordinate loss, an
\* assigned slot and an unassigned one.
W_C4_CoordLossCharged ==
  /\ pc = "lossDone"
  /\ loss.coordLoss > 0
  /\ AssignedSlots(groundTruthBoxes) # {}
  /\ LossSlots \ AssignedSlots(groundTruthBoxes) # {}

\* C5: with class scores enabled and no ground truth box, classLoss is 0
\* (the original claim).
CE_C5_ClassLossOnlyAssigned ==
  (pc = "lossDone" /\ withClassScores(config) /\ groundTruth = <<>>) => loss.classLoss = 0

\* C7: computeLoss with a zero or negative working resolution fails before
\* any assignment is computed (the original claim).
CE_C7_NonPositiveRejected ==
  ("validateTrainConfig" \in steps /\ Max(dims.width, dims.height) <= 0) =>
    /\ pc = "failed"
    /\ "assign" \notin steps

====
